---- MODULE Spec2Model ----
(***************************************************************************)
(* Model of crypto-msg-parser/src/exchanges/binance.rs: parse_trade and    *)
(* calc_quantity_and_volume.                                               *)
(*                                                                         *)
(* Representation.                                                         *)
(*  - A Rust String / &str is a sequence of one-character strings.         *)
(*  - A serde_json::Value is a tagged record [k |-> tag, v |-> payload];   *)
(*    a JSON object's payload is a function from key names to Values.      *)
(*  - An f64 is an exact rational [cls |-> "fin", n, d] in lowest terms,   *)
(*    or [cls |-> "inf", ...] / [cls |-> "nan", ...] for the results of a  *)
(*    division by zero.  Rounding is not modelled.                         *)
(*  - The outcome of a call is Ok(records), Err (a serde_json::Error        *)
(*    returned as a value) or Panic (an unwrap()/panic! that unwinds).     *)
(***************************************************************************)
EXTENDS Integers, Sequences, FiniteSets, TLC

VARIABLES market_type, msg, result

vars == <<market_type, msg, result>>

\* Largest number of inner trades carried by one trade_all envelope.
MaxBatch == 2

-----------------------------------------------------------------------------
(* Text literals *)

EXCHANGE_NAME == <<"b","i","n","a","n","c","e">>

AggTradeEvent == <<"a","g","g","T","r","a","d","e">>
TradeEvent    == <<"t","r","a","d","e">>
TradeAllEvent == <<"t","r","a","d","e","_","a","l","l">>
FoobarEvent   == <<"f","o","o","b","a","r">>
KlineEvent    == <<"k","l","i","n","e">>

BtcPrefix == <<"B","T","C","/">>

SellCode == <<"1">>

-----------------------------------------------------------------------------
(* serde_json::Value *)

JNull    == [k |-> "null", v |-> 0]
JBool(b) == [k |-> "bool", v |-> b]
JNum(i)  == [k |-> "num", v |-> i]
JStr(s)  == [k |-> "str", v |-> s]
JArr(a)  == [k |-> "arr", v |-> a]
JObj(o)  == [k |-> "obj", v |-> o]

\* The text handed to the decoder when it is not JSON at all.
NotJson == [k |-> "notjson", v |-> 0]

IsStr(x)  == x.k = "str"
IsNum(x)  == x.k = "num"
IsBool(x) == x.k = "bool"
IsArr(x)  == x.k = "arr"
IsObj(x)  == x.k = "obj"

\* Value::get(key): None unless the value is an object holding the key.
HasKey(x, key) == IsObj(x) /\ key \in DOMAIN x.v

\* A map without some of its keys (the rest of a #[serde(flatten)] struct).
Without(o, keys) == [x \in (DOMAIN o) \ keys |-> o[x]]

-----------------------------------------------------------------------------
(* f64 *)

RECURSIVE Gcd(_, _)
Gcd(a, b) == IF b = 0 THEN a ELSE Gcd(b, a % b)

Abs(i) == IF i < 0 THEN -i ELSE i

\* The rational n/d (d > 0) in lowest terms.
Fin(n, d) ==
    LET g == Gcd(Abs(n), d)
    IN  [cls |-> "fin", n |-> n \div g, d |-> d \div g]

Inf(sign) == [cls |-> "inf", n |-> sign, d |-> 0]
NaN       == [cls |-> "nan", n |-> 0, d |-> 0]

IsFin(x) == x.cls = "fin"

F64Mul(x, y) ==
    IF IsFin(x) /\ IsFin(y) THEN Fin(x.n * y.n, x.d * y.d) ELSE NaN

F64Div(x, y) ==
    IF ~(IsFin(x) /\ IsFin(y)) THEN NaN
    ELSE IF y.n = 0 THEN (IF x.n = 0 THEN NaN ELSE Inf(IF x.n < 0 THEN -1 ELSE 1))
    ELSE IF y.n < 0 THEN Fin(-(x.n * y.d), x.d * (-y.n))
    ELSE Fin(x.n * y.d, x.d * y.n)

\* x > 0 and x >= 0 as f64 comparisons (false for NaN).
F64Positive(x) == (IsFin(x) /\ x.n > 0) \/ (x.cls = "inf" /\ x.n > 0)
F64NonNegative(x) == (IsFin(x) /\ x.n >= 0) \/ (x.cls = "inf" /\ x.n > 0)

DigitChars == {"0","1","2","3","4","5","6","7","8","9"}

DigitVal(c) ==
    CASE c = "0" -> 0 [] c = "1" -> 1 [] c = "2" -> 2 [] c = "3" -> 3
      [] c = "4" -> 4 [] c = "5" -> 5 [] c = "6" -> 6 [] c = "7" -> 7
      [] c = "8" -> 8 [] c = "9" -> 9

DigitChar(i) ==
    CASE i = 0 -> "0" [] i = 1 -> "1" [] i = 2 -> "2" [] i = 3 -> "3"
      [] i = 4 -> "4" [] i = 5 -> "5" [] i = 6 -> "6" [] i = 7 -> "7"
      [] i = 8 -> "8" [] i = 9 -> "9"

RECURSIVE DigitsValue(_)
DigitsValue(s) ==
    IF s = <<>> THEN 0
    ELSE 10 * DigitsValue(SubSeq(s, 1, Len(s) - 1)) + DigitVal(s[Len(s)])

RECURSIVE Pow10(_)
Pow10(i) == IF i = 0 THEN 1 ELSE 10 * Pow10(i - 1)

AllDigits(s) == \A i \in 1..Len(s) : s[i] \in DigitChars

\* str::parse::<f64>() on decimal text: an optional sign, digits with at most
\* one '.', at least one digit.  (Exponents, "inf" and "nan" are also accepted
\* by Rust; no text of the model uses the letters they need.)
ParseF64(s) ==
    LET signed == Len(s) > 0 /\ s[1] \in {"-", "+"}
        neg    == Len(s) > 0 /\ s[1] = "-"
        body   == IF signed THEN Tail(s) ELSE s
        dots   == {i \in 1..Len(body) : body[i] = "."}
        dot    == IF dots = {} THEN Len(body) + 1 ELSE CHOOSE i \in dots : TRUE
        whole  == SubSeq(body, 1, dot - 1)
        frac   == SubSeq(body, dot + 1, Len(body))
        valid  == /\ Cardinality(dots) <= 1
                  /\ AllDigits(whole) /\ AllDigits(frac)
                  /\ Len(whole) + Len(frac) > 0
        mag    == DigitsValue(whole \o frac)
    IN  IF valid
        THEN [ok |-> TRUE,
              v  |-> Fin(IF neg THEN -mag ELSE mag, Pow10(Len(frac)))]
        ELSE [ok |-> FALSE, v |-> NaN]

\* i64::to_string()
RECURSIVE NatToString(_)
NatToString(i) ==
    IF i < 10 THEN <<DigitChar(i)>>
    ELSE Append(NatToString(i \div 10), DigitChar(i % 10))

I64ToString(i) == IF i < 0 THEN <<"-">> \o NatToString(-i) ELSE NatToString(i)

\* str::starts_with
StartsWith(s, prefix) ==
    Len(s) >= Len(prefix) /\ SubSeq(s, 1, Len(prefix)) = prefix

-----------------------------------------------------------------------------
(* Pair normalizer (crypto_pair::normalize_pair), exchange "binance" *)

SymBtcUsdt    == <<"B","T","C","U","S","D","T">>
SymBtcUsdPerp == <<"B","T","C","U","S","D","_","P","E","R","P">>
SymEthUsdPerp == <<"E","T","H","U","S","D","_","P","E","R","P">>
SymBtcOption  == <<"B","T","C","-","2","1","0","1","2","9","-","3","6","0","0","0","-","C">>
SymUnknown    == <<"?","?","?">>

PairBtcUsdt == <<"B","T","C","/","U","S","D","T">>
PairBtcUsd  == <<"B","T","C","/","U","S","D">>
PairEthUsd  == <<"E","T","H","/","U","S","D">>

NormalizationTable ==
    (SymBtcUsdt :> PairBtcUsdt) @@ (SymBtcUsdPerp :> PairBtcUsd) @@
    (SymEthUsdPerp :> PairEthUsd) @@ (SymBtcOption :> PairBtcUsdt)

\* Option<String>: None on a lookup miss.
normalize_pair(symbol, exchange) ==
    IF exchange = EXCHANGE_NAME /\ symbol \in DOMAIN NormalizationTable
    THEN [some |-> TRUE, v |-> NormalizationTable[symbol]]
    ELSE [some |-> FALSE, v |-> <<>>]

-----------------------------------------------------------------------------
(* Outcomes of a call *)

NotCalled == [kind |-> "NotCalled", records |-> <<>>, err |-> "", detail |-> <<>>]

Ok(records) == [kind |-> "Ok", records |-> records, err |-> "", detail |-> <<>>]

\* Err(e): the only error type of the signature is serde_json::Error.
Err(name) == [kind |-> "Err", records |-> <<>>, err |-> name, detail |-> <<>>]

\* An unwrap() on None/Err or a panic!: no value is returned.
Panic(what, detail) ==
    [kind |-> "Panic", records |-> <<>>, err |-> what, detail |-> detail]

-----------------------------------------------------------------------------
(* Typed payloads: serde_json::from_value / to_value *)

HasStr(o, key)  == HasKey(o, key) /\ IsStr(o.v[key])
HasI64(o, key)  == HasKey(o, key) /\ IsNum(o.v[key])
HasBool(o, key) == HasKey(o, key) /\ IsBool(o.v[key])

AggTradeKeys == {"e", "E", "s", "a", "p", "q", "f", "l", "T", "m"}

IsAggTradeMsg(data) ==
    /\ \A key \in {"e", "s", "p", "q"} : HasStr(data, key)
    /\ \A key \in {"E", "a", "f", "l", "T"} : HasI64(data, key)
    /\ HasBool(data, "m")

AggTradeMsg(data) ==
    [e |-> data.v["e"].v, E |-> data.v["E"].v, s |-> data.v["s"].v,
     a |-> data.v["a"].v, p |-> data.v["p"].v, q |-> data.v["q"].v,
     f |-> data.v["f"].v, l |-> data.v["l"].v, T |-> data.v["T"].v,
     m |-> data.v["m"].v, extra |-> Without(data.v, AggTradeKeys)]

RawTradeKeys == {"e", "E", "s", "t", "p", "q", "b", "a", "T", "m"}

IsRawTradeMsg(data) ==
    /\ \A key \in {"e", "s", "p", "q"} : HasStr(data, key)
    /\ \A key \in {"E", "t", "b", "a", "T"} : HasI64(data, key)
    /\ HasBool(data, "m")

RawTradeMsg(data) ==
    [e |-> data.v["e"].v, E |-> data.v["E"].v, s |-> data.v["s"].v,
     t |-> data.v["t"].v, p |-> data.v["p"].v, q |-> data.v["q"].v,
     b |-> data.v["b"].v, a |-> data.v["a"].v, T |-> data.v["T"].v,
     m |-> data.v["m"].v, extra |-> Without(data.v, RawTradeKeys)]

OptionTradeStrKeys == {"t", "p", "q", "b", "a", "s", "S"}
OptionTradeKeys == OptionTradeStrKeys \cup {"T"}

IsOptionTradeMsg(x) ==
    /\ \A key \in OptionTradeStrKeys : HasStr(x, key)
    /\ HasI64(x, "T")

OptionTradeMsg(x) ==
    [t |-> x.v["t"].v, p |-> x.v["p"].v, q |-> x.v["q"].v, b |-> x.v["b"].v,
     a |-> x.v["a"].v, T |-> x.v["T"].v, s |-> x.v["s"].v, S |-> x.v["S"].v,
     extra |-> Without(x.v, OptionTradeKeys)]

\* serde_json::to_value(&trade): the named fields, then the flattened extra.
OptionTradeToValue(trade) ==
    JObj([key \in OptionTradeKeys \cup DOMAIN trade.extra |->
            IF key \in OptionTradeStrKeys THEN JStr(trade[key])
            ELSE IF key = "T" THEN JNum(trade.T)
            ELSE trade.extra[key]])

IsOptionTradeAllMsg(data) ==
    /\ HasStr(data, "e") /\ HasI64(data, "E") /\ HasStr(data, "s")
    /\ HasKey(data, "t") /\ IsArr(data.v["t"])
    /\ \A i \in 1..Len(data.v["t"].v) : IsOptionTradeMsg(data.v["t"].v[i])

\* Keys the struct does not name are dropped: it has no flattened extra.
OptionTradeAllMsg(data) ==
    [e |-> data.v["e"].v, E |-> data.v["E"].v, s |-> data.v["s"].v,
     t |-> [i \in 1..Len(data.v["t"].v) |-> OptionTradeMsg(data.v["t"].v[i])]]

-----------------------------------------------------------------------------
(* calc_quantity_and_volume *)

BtcContractValue   == 100
OtherContractValue == 10

\* calc_quantity_and_volume reconciling every market type but Spot as if it
\* were contract-denominated.
calc_quantity_and_volume_AllDerivatives(mt, pair, price, quantity) ==
    IF mt # "Spot"
    THEN LET contract_value == IF StartsWith(pair, BtcPrefix)
                               THEN Fin(BtcContractValue, 1)
                               ELSE Fin(OtherContractValue, 1)
             volume == F64Mul(quantity, contract_value)
         IN  [quantity |-> F64Div(volume, price), volume |-> volume]
    ELSE [quantity |-> quantity, volume |-> F64Mul(quantity, price)]

calc_quantity_and_volume(mt, pair, price, quantity) ==
    IF mt = "InverseSwap" \/ mt = "InverseFuture"
    THEN LET contract_value == IF StartsWith(pair, BtcPrefix)
                               THEN Fin(BtcContractValue, 1)
                               ELSE Fin(OtherContractValue, 1)
             volume == F64Mul(quantity, contract_value)
         IN  [quantity |-> F64Div(volume, price), volume |-> volume]
    ELSE [quantity |-> quantity, volume |-> F64Mul(quantity, price)]

-----------------------------------------------------------------------------
(* parse_trade *)

TradeMsg(mt, symbol, pair, timestamp, price, quantity, volume, side, trade_id, raw) ==
    [exchange |-> EXCHANGE_NAME, market_type |-> mt, symbol |-> symbol,
     pair |-> pair, msg_type |-> "Trade", timestamp |-> timestamp,
     price |-> price, quantity |-> quantity, volume |-> volume,
     side |-> side, trade_id |-> trade_id, raw |-> raw]

\* side of the aggTrade and trade variants, from "is the buyer the market maker?"
MakerSide(m) == IF m THEN "Sell" ELSE "Buy"

\* side of an inner trade of the trade_all variant
OptionSide(s) == IF s = SellCode THEN "Sell" ELSE "Buy"

AggTradeId(agg_trade) == I64ToString(agg_trade.a)

\* RawTradeId reading the seller order id instead of the trade id.
RawTradeId_SellerOrderId(raw_trade) == I64ToString(raw_trade.a)

RawTradeId(raw_trade) == I64ToString(raw_trade.t)

OptionTradeId(trade) == trade.a

\* EnvelopeRaw keeping only the "data" member of the message.
EnvelopeRaw_DataOnly(m) == m.v["data"]

\* raw: serde_json::from_str(msg)?, the whole message text decoded again.
\* The text is modelled by the value it decodes to.
EnvelopeRaw(m) == m

\* The first unwrap() that fails while one record's fields are evaluated in
\* the order the struct literal lists them, or "" when none does.
FieldPanic(symbol, p, q) ==
    IF ~normalize_pair(symbol, EXCHANGE_NAME).some THEN "normalize_pair"
    ELSE IF ~ParseF64(p).ok THEN "parse price"
    ELSE IF ~ParseF64(q).ok THEN "parse quantity"
    ELSE ""

\* In the trade_all closure price and quantity are parsed first.
OptionFieldPanic(trade) ==
    IF ~ParseF64(trade.p).ok THEN "parse price"
    ELSE IF ~ParseF64(trade.q).ok THEN "parse quantity"
    ELSE IF ~normalize_pair(trade.S, EXCHANGE_NAME).some THEN "normalize_pair"
    ELSE ""

\* The record of the aggTrade and trade branches, volume 0.0 replaced by the
\* reconciled quantity and volume.
ReconciledTrade(mt, m, symbol, timestamp, p, q, side, trade_id) ==
    LET pair  == normalize_pair(symbol, EXCHANGE_NAME).v
        price == ParseF64(p).v
        qv    == calc_quantity_and_volume(mt, pair, price, ParseF64(q).v)
    IN  TradeMsg(mt, symbol, pair, timestamp, price, qv.quantity, qv.volume,
                 side, trade_id, EnvelopeRaw(m))

ParseAggTrade(mt, m, data) ==
    IF ~IsAggTradeMsg(data) THEN Panic("from_value AggTradeMsg", <<>>)
    ELSE LET agg_trade == AggTradeMsg(data)
             failed    == FieldPanic(agg_trade.s, agg_trade.p, agg_trade.q)
         IN  IF failed # "" THEN Panic(failed, <<>>)
             ELSE Ok(<<ReconciledTrade(mt, m, agg_trade.s, agg_trade.T,
                                       agg_trade.p, agg_trade.q,
                                       MakerSide(agg_trade.m),
                                       AggTradeId(agg_trade))>>)

ParseRawTrade(mt, m, data) ==
    IF ~IsRawTradeMsg(data) THEN Panic("from_value RawTradeMsg", <<>>)
    ELSE LET raw_trade == RawTradeMsg(data)
             failed    == FieldPanic(raw_trade.s, raw_trade.p, raw_trade.q)
         IN  IF failed # "" THEN Panic(failed, <<>>)
             ELSE Ok(<<ReconciledTrade(mt, m, raw_trade.s, raw_trade.T,
                                       raw_trade.p, raw_trade.q,
                                       MakerSide(raw_trade.m),
                                       RawTradeId(raw_trade))>>)

\* The closure of the trade_all branch, for an inner trade none of whose
\* unwrap()s fails.
OptionTradeRecord(mt, trade) ==
    LET price    == ParseF64(trade.p).v
        quantity == ParseF64(trade.q).v
    IN  TradeMsg(mt, trade.S, normalize_pair(trade.S, EXCHANGE_NAME).v, trade.T,
                 price, quantity, F64Mul(price, quantity),
                 OptionSide(trade.s), OptionTradeId(trade),
                 OptionTradeToValue(trade))

\* OptionTradeRecords collecting the inner trades back to front.
OptionTradeRecords_Reversed(mt, trades) ==
    [i \in 1..Len(trades) |-> OptionTradeRecord(mt, trades[Len(trades) + 1 - i])]

\* all_trades.t.into_iter().map(..).collect()
OptionTradeRecords(mt, trades) ==
    [i \in 1..Len(trades) |-> OptionTradeRecord(mt, trades[i])]

ParseTradeAll(mt, data) ==
    IF ~IsOptionTradeAllMsg(data) THEN Panic("from_value OptionTradeAllMsg", <<>>)
    ELSE LET all_trades == OptionTradeAllMsg(data)
             bad == {i \in 1..Len(all_trades.t) : OptionFieldPanic(all_trades.t[i]) # ""}
         IN  IF bad # {}
             THEN Panic(OptionFieldPanic(all_trades.t[CHOOSE i \in bad : \A j \in bad : i <= j]), <<>>)
             ELSE Ok(OptionTradeRecords(mt, all_trades.t))

parse_trade(mt, m) ==
    IF ~IsObj(m) THEN Err("serde_json::Error")
    ELSE IF ~HasKey(m, "data") THEN Panic("unwrap data", <<>>)
    ELSE LET data == m.v["data"]
         IN  IF ~HasKey(data, "e") THEN Panic("unwrap e", <<>>)
             ELSE IF ~IsStr(data.v["e"]) THEN Panic("unwrap as_str", <<>>)
             ELSE LET event_type == data.v["e"].v
                  IN  CASE event_type = AggTradeEvent -> ParseAggTrade(mt, m, data)
                        [] event_type = TradeEvent    -> ParseRawTrade(mt, m, data)
                        [] event_type = TradeAllEvent -> ParseTradeAll(mt, data)
                        [] OTHER -> Panic("Unsupported event type", event_type)

-----------------------------------------------------------------------------
(* Inputs: what the stream source can hand to parse_trade *)

MarketTypes == {"Spot", "LinearSwap", "InverseSwap", "InverseFuture", "Option"}

Symbols == {SymBtcUsdt, SymBtcUsdPerp, SymEthUsdPerp, SymUnknown}

PriceTexts ==
    {<<"1","0","0",".","5">>, <<"2","0","0","0","0">>, <<"0">>, <<"-","1">>,
     <<"a","b","c">>}

QuantityTexts == {<<"2">>, <<"5","0">>, <<"x">>}

TradeIds == {7, 120}

\* Keys the typed payloads do not name.
Extras == {<<>>, "X" :> JStr(<<"M","A","R","K","E","T">>)}

StreamName == <<"b","t","c","u","s","d","t","@","t","r","a","d","e">>

Envelope(data) == JObj([stream |-> JStr(StreamName), data |-> data])

AggTradeData(s, a, p, q, m, extra) ==
    JObj([e |-> JStr(AggTradeEvent), E |-> JNum(1001), s |-> JStr(s),
          a |-> JNum(a), p |-> JStr(p), q |-> JStr(q), f |-> JNum(100),
          l |-> JNum(105), T |-> JNum(1000), m |-> JBool(m)] @@ extra)

RawTradeData(s, t, p, q, m, extra) ==
    JObj([e |-> JStr(TradeEvent), E |-> JNum(1001), s |-> JStr(s),
          t |-> JNum(t), p |-> JStr(p), q |-> JStr(q), b |-> JNum(88),
          a |-> JNum(50), T |-> JNum(1000), m |-> JBool(m)] @@ extra)

OptionTradeData(t, a, T, p, q, s, S, extra) ==
    JObj([t |-> JStr(t), p |-> JStr(p), q |-> JStr(q), b |-> JStr(<<"4">>),
          a |-> JStr(a), T |-> JNum(T), s |-> JStr(s), S |-> JStr(S)] @@ extra)

OptionTradeAllData(inner) ==
    JObj([e |-> JStr(TradeAllEvent), E |-> JNum(1002), s |-> JStr(SymBtcUsdt),
          t |-> JArr(inner)])

AggTradeMessages ==
    {Envelope(AggTradeData(s, a, p, q, m, extra)) :
        s \in Symbols, a \in TradeIds, p \in PriceTexts, q \in QuantityTexts,
        m \in BOOLEAN, extra \in Extras}

RawTradeMessages ==
    {Envelope(RawTradeData(s, t, p, q, m, extra)) :
        s \in Symbols, t \in TradeIds, p \in PriceTexts, q \in QuantityTexts,
        m \in BOOLEAN, extra \in Extras}

InnerTrades ==
    {OptionTradeData(t, a, T, <<"1","0","0",".","5">>, <<"2">>, <<"1">>, SymBtcOption, <<>>) :
        t \in {<<"1">>, <<"2">>}, a \in {<<"7">>, <<"8">>}, T \in {1000, 1001}}
    \cup
    {OptionTradeData(<<"3">>, <<"9">>, 1000, <<"2","0","0","0","0">>, <<"5","0">>, <<"2">>,
                     SymBtcOption, "X" :> JStr(<<"M","A","R","K","E","T">>)),
     OptionTradeData(<<"3">>, <<"9">>, 1000, <<"1","0","0",".","5">>, <<"2">>, <<"1">>,
                     SymUnknown, <<>>),
     OptionTradeData(<<"3">>, <<"9">>, 1000, <<"a","b","c">>, <<"2">>, <<"1">>,
                     SymBtcOption, <<>>),
     OptionTradeData(<<"3">>, <<"9">>, 1000, <<"1","0","0",".","5">>, <<"x">>, <<"1">>,
                     SymBtcOption, <<>>),
     OptionTradeData(<<"3">>, <<"9">>, 1000, <<"0">>, <<"2">>, <<"1">>,
                     SymBtcOption, <<>>),
     JObj([t |-> JStr(<<"3">>)])}

RECURSIVE SeqsUpTo(_, _)
SeqsUpTo(S, n) ==
    IF n = 0 THEN {<<>>}
    ELSE LET shorter == SeqsUpTo(S, n - 1)
         IN  shorter \cup {Append(q, x) : q \in shorter, x \in S}

TradeAllMessages ==
    {Envelope(OptionTradeAllData(inner)) : inner \in SeqsUpTo(InnerTrades, MaxBatch)}

\* Well-formed envelopes whose discriminator names no supported event.
UnsupportedMessages ==
    {Envelope(JObj([e |-> JStr(ev), E |-> JNum(1001), s |-> JStr(SymBtcUsdt)])) :
        ev \in {FoobarEvent, KlineEvent}}

\* Valid JSON objects without the envelope structure, and text that is no
\* JSON object at all.
MalformedEnvelopes ==
    {JObj([stream |-> JStr(StreamName)]),
     Envelope(JObj([E |-> JNum(1001), s |-> JStr(SymBtcUsdt)])),
     Envelope(JObj([e |-> JNum(1), E |-> JNum(1001)])),
     Envelope(JNum(1)),
     Envelope(JObj([e |-> JStr(AggTradeEvent), E |-> JNum(1001)]))}

NonObjects == {NotJson, JArr(<<>>)}

Messages ==
    AggTradeMessages \cup RawTradeMessages \cup TradeAllMessages
        \cup UnsupportedMessages \cup MalformedEnvelopes \cup NonObjects

-----------------------------------------------------------------------------
(* One call of parse_trade *)

Init ==
    /\ market_type \in MarketTypes
    /\ msg \in Messages
    /\ result = NotCalled

ParseTrade ==
    /\ result = NotCalled
    /\ result' = parse_trade(market_type, msg)
    /\ UNCHANGED <<market_type, msg>>

Next == ParseTrade

Spec == Init /\ [][Next]_vars

-----------------------------------------------------------------------------
(* Vocabulary of the properties *)

Returned == result.kind # "NotCalled"

Decoded == result.kind = "Ok"

\* The message is a JSON object with a "data" member that has a string "e".
IsEnvelope == IsObj(msg) /\ HasKey(msg, "data") /\ HasStr(msg.v["data"], "e")

DataSection == msg.v["data"]

Discriminator == DataSection.v["e"].v

EventIs(ev) == IsEnvelope /\ Discriminator = ev

SupportedEvents == {AggTradeEvent, TradeEvent, TradeAllEvent}

InnerTradesOf == DataSection.v["t"].v

\* The JSON object the i-th returned record was decoded from.
SourceTrade(i) == IF Discriminator = TradeAllEvent THEN InnerTradesOf[i] ELSE DataSection

ReportedPrice(i)    == ParseF64(SourceTrade(i).v["p"].v).v
ReportedQuantity(i) == ParseF64(SourceTrade(i).v["q"].v).v

Inverse == market_type \in {"InverseSwap", "InverseFuture"}

\* An inner trade whose symbol the normalizer cannot resolve or whose price or
\* quantity text is not numeric.
Faulty(x) ==
    \/ ~normalize_pair(x.v["S"].v, EXCHANGE_NAME).some
    \/ ~ParseF64(x.v["p"].v).ok
    \/ ~ParseF64(x.v["q"].v).ok

-----------------------------------------------------------------------------
(* C1 *)

\* C1: an envelope whose discriminator is none of aggTrade, trade, trade_all
\* makes parse_trade return the error UnsupportedEventType carrying the name,
\* with no records and without panicking.
C1_UnsupportedEventTypeIsAnError ==
    (Returned /\ IsEnvelope /\ Discriminator \notin SupportedEvents)
        => /\ result.kind = "Err"
           /\ result.err = "UnsupportedEventType"
           /\ result.detail = Discriminator
           /\ result.records = <<>>

-----------------------------------------------------------------------------
(* C2 *)

\* C2: when exactly one inner trade of a trade_all batch of n has an
\* unresolvable symbol or non-numeric price/quantity text, the call does not
\* abort and the other n-1 inner trades decode into records.
C2_BatchErrorsAreIsolated ==
    (/\ Returned
     /\ EventIs(TradeAllEvent)
     /\ IsOptionTradeAllMsg(DataSection)
     /\ Cardinality({i \in 1..Len(InnerTradesOf) : Faulty(InnerTradesOf[i])}) = 1)
        => /\ result.kind # "Panic"
           /\ Len(result.records) = Len(InnerTradesOf) - 1

-----------------------------------------------------------------------------
(* C3 *)

\* C3: valid JSON without the envelope structure (no "data", "data" without
\* "e", or a non-string "e") makes parse_trade return the error
\* MalformedEnvelope as a value.
C3_MalformedEnvelopeIsAnError ==
    (Returned /\ IsObj(msg) /\ ~IsEnvelope)
        => (result.kind = "Err" /\ result.err = "MalformedEnvelope")

-----------------------------------------------------------------------------
(* C4 *)

FaceValue(pair) ==
    IF StartsWith(pair, BtcPrefix) THEN Fin(100, 1) ELSE Fin(10, 1)

\* C4: every record decoded under InverseSwap or InverseFuture, whichever
\* variant carried it, has volume = reported contract count * face value
\* (100 for a BTC base, 10 otherwise) and quantity = volume / price.
C4_InverseReconciledInEveryVariant ==
    (Decoded /\ Inverse)
        => \A i \in 1..Len(result.records) :
              LET r == result.records[i]
              IN  /\ r.volume = F64Mul(ReportedQuantity(i), FaceValue(r.pair))
                  /\ r.quantity = F64Div(r.volume, r.price)

-----------------------------------------------------------------------------
(* C5 *)

\* C5: every record decoded under a market type other than InverseSwap and
\* InverseFuture keeps the reported quantity unchanged and has
\* volume = quantity * price.
C5_NonInverseQuantityAndVolume ==
    (Decoded /\ ~Inverse)
        => \A i \in 1..Len(result.records) :
              LET r == result.records[i]
              IN  /\ r.quantity = ReportedQuantity(i)
                  /\ r.price = ReportedPrice(i)
                  /\ r.volume = F64Mul(r.quantity, r.price)

\* A spot raw trade with price "100.5" and quantity "2" was decoded:
\* price 100.5, quantity 2, volume 201.
C5_Witness ==
    /\ Decoded /\ market_type = "Spot" /\ EventIs(TradeEvent)
    /\ DataSection.v["p"].v = <<"1","0","0",".","5">>
    /\ DataSection.v["q"].v = <<"2">>
    /\ result.records[1].price = Fin(1005, 10)
    /\ result.records[1].quantity = Fin(2, 1)
    /\ result.records[1].volume = Fin(201, 1)

-----------------------------------------------------------------------------
(* C6 *)

\* C6: in the aggTrade and trade variants side is Sell exactly when m is true
\* and Buy exactly when it is false; trade_id is the decimal text of field a
\* for aggTrade and of field t for trade.
C6_MakerSideAndTradeId ==
    (Decoded /\ (EventIs(AggTradeEvent) \/ EventIs(TradeEvent)))
        => LET r == result.records[1]
               d == DataSection.v
           IN  /\ (r.side = "Sell") <=> (d["m"].v = TRUE)
               /\ (r.side = "Buy") <=> (d["m"].v = FALSE)
               /\ EventIs(AggTradeEvent) => r.trade_id = I64ToString(d["a"].v)
               /\ EventIs(TradeEvent) => r.trade_id = I64ToString(d["t"].v)

\* A raw trade with m = true, trade id 120 and seller order id 50 was decoded
\* into a Sell with trade_id "120".
C6_Witness ==
    /\ Decoded /\ EventIs(TradeEvent)
    /\ DataSection.v["m"].v = TRUE
    /\ DataSection.v["t"].v = 120 /\ DataSection.v["a"].v = 50
    /\ result.records[1].side = "Sell"
    /\ result.records[1].trade_id = <<"1","2","0">>

-----------------------------------------------------------------------------
(* C7 *)

-----------------------------------------------------------------------------
(* C8 *)

\* C8: a trade_all envelope with two inner trades under one outer timestamp E
\* (the two trades distinct in their trade id t, and reported at the same trade
\* time T) decodes into two records with the same timestamp and distinct
\* trade ids.
C8_BatchSharesTimestampDistinctIds ==
    (/\ Decoded
     /\ EventIs(TradeAllEvent)
     /\ Len(InnerTradesOf) = 2
     /\ InnerTradesOf[1].v["t"] # InnerTradesOf[2].v["t"]
     /\ InnerTradesOf[1].v["T"] = InnerTradesOf[2].v["T"])
        => /\ Len(result.records) = 2
           /\ result.records[1].timestamp = result.records[2].timestamp
           /\ result.records[1].trade_id # result.records[2].trade_id

-----------------------------------------------------------------------------
(* C9 *)

\* C9: every returned record has price > 0 and quantity >= 0, whatever numbers
\* the price and quantity texts spell and whatever the market type.
C9_PricePositiveQuantityNonNegative ==
    Decoded
        => \A i \in 1..Len(result.records) :
              /\ F64Positive(result.records[i].price)
              /\ F64NonNegative(result.records[i].quantity)

-----------------------------------------------------------------------------
(* C10 *)

\* C10: a decoded trade_all envelope with n inner trades yields exactly n
\* records, the i-th built from the i-th inner trade; a decoded aggTrade or
\* trade envelope yields exactly one record.
C10_OneRecordPerTradeInSourceOrder ==
    Decoded
        => IF Discriminator = TradeAllEvent
           THEN /\ Len(result.records) = Len(InnerTradesOf)
                /\ \A i \in 1..Len(InnerTradesOf) :
                      LET r == result.records[i]
                          x == InnerTradesOf[i].v
                      IN  /\ r.symbol = x["S"].v
                          /\ r.timestamp = x["T"].v
                          /\ r.trade_id = x["a"].v
                          /\ r.price = ParseF64(x["p"].v).v
                          /\ r.quantity = ParseF64(x["q"].v).v
                          /\ r.side = (IF x["s"].v = <<"1">> THEN "Sell" ELSE "Buy")
           ELSE /\ Len(result.records) = 1
                /\ result.records[1].symbol = DataSection.v["s"].v

\* A trade_all envelope with two different inner trades was decoded into two
\* different records.
C10_Witness ==
    /\ Decoded /\ EventIs(TradeAllEvent)
    /\ Len(InnerTradesOf) = 2
    /\ InnerTradesOf[1] # InnerTradesOf[2]
    /\ Len(result.records) = 2
    /\ result.records[1].trade_id = InnerTradesOf[1].v["a"].v
    /\ result.records[1] # result.records[2]

====
